---- MODULE Spec2Model ----
(***************************************************************************)
(* A model of the job-posting enrichment pipeline                          *)
(* (python_databricks_to_azure/main.py) and of the chat script             *)
(* (python_streamlit_langchain_to_gemini/main.py).                         *)
(*                                                                         *)
(* Python values are records [t |-> tag, v |-> payload]:                   *)
(*   "none"  None                 "nan"   float NaN (pandas missing)       *)
(*   "str"   a str                "int"   a native int                     *)
(*   "float" a native float (in hundredths)                                *)
(*   "np.int64", "np.float64"  numpy scalars wrapping v (they have .item()) *)
(* A DataFrame is [columns |-> set of names, rows |-> sequence of rows],   *)
(* a row a function from its column names to values.                       *)
(***************************************************************************)
EXTENDS Integers, Sequences, FiniteSets, TLC

VARIABLES
    df,                 \* the DataFrame handed to the running enrichment function
    batch_size,         \* its batch_size argument
    fn,                 \* the enrichment function running: its name, or "none"
    fpc,                \* its position: "loop", "returned"
    i,                  \* the loop variable of range(0, len(texts), batch_size)
    sentiment_scores,   \* analyze_sentiment's local list
    sentiment_labels,   \* analyze_sentiment's local list
    results,            \* extract_key_phrases' / recognize_entities' local list
    df_with_sentiment,  \* value returned by analyze_sentiment
    df_key_phrases,     \* value returned by extract_key_phrases
    df_entities,        \* value returned by recognize_entities
    calls,              \* the NLP service's request log: <<[op, docs]>>
    chunk_log,          \* history of loop iterations: <<[start, batch, outcome, response]>>
    row,                \* upsert_job_to_sql's row argument
    upc,                \* upsert_job_to_sql's position
    phrases_json,       \* upsert_job_to_sql's local
    entities_json,      \* upsert_job_to_sql's local
    sql_log,            \* what the relational connection was asked to do
    df_sample,          \* value returned by random_df_split
    sample_log,         \* history of the calls of random_df_split
    env,                \* the configuration variables that are set
    service_log,        \* what each connecting function did: <<[fn, service, result, network, open]>>
    agent,              \* the chat script's agent: "unbound", "built"
    pc,                 \* main()'s position
    main_df,            \* main()'s df
    azure_client,       \* main()'s azure_client: "unbound", "client"
    sql_conn,           \* main()'s sql_conn: "unbound", "open", "closed"
    printed,            \* the error messages printed: <<[stage, text]>>
    entered,            \* history: the stages main() has started, in order
    failed,             \* history: the stages in which an exception was raised
    messages,           \* st.session_state.messages: <<[role, content]>>
    pending,            \* st.session_state.pending_question: <<>> when absent, else <<q>>
    db_connected,       \* st.session_state.db_connected
    cache,              \* what st.cache_resource holds: a subset of {"db", "agent"}
    shown,              \* what the last page run displayed: <<[kind, text]>>
    asked,              \* history: the questions handled: <<[run, source, question, raised, text]>>
    runs,               \* history: the number of page runs so far
    rerun,              \* st.rerun() was called by the last page run
    clicked             \* history: what the user did to start the last page run

enrich_vars == <<df, batch_size, fn, fpc, i, sentiment_scores, sentiment_labels,
                 results, df_with_sentiment, df_key_phrases, df_entities,
                 calls, chunk_log>>

upsert_vars == <<row, upc, phrases_json, entities_json, sql_log>>

sampler_vars == <<df_sample, sample_log>>

config_vars == <<env, service_log, agent>>

main_vars == <<pc, main_df, azure_client, sql_conn, printed, entered, failed>>

chat_vars == <<messages, pending, db_connected, cache, shown, asked, runs, rerun,
               clicked>>

vars == <<enrich_vars, upsert_vars, sampler_vars, config_vars, main_vars, chat_vars>>

----------------------------------------------------------------------------
\* Bounds of the model.
MaxRows == 3
MaxBatch == 3

\* batch_size=5, the default of the three enrichment functions.
DefaultBatchSize == 5

----------------------------------------------------------------------------
\* Python values.
Val(tag, payload) == [t |-> tag, v |-> payload]
NoneV == Val("none", "")
NaN == Val("nan", "")
Str(s) == Val("str", s)
Unbound == [columns |-> {"<unbound>"}, rows |-> <<>>]

IsNull(x) == x.t \in {"none", "nan"}

Min(a, b) == IF a < b THEN a ELSE b
Max3(a, b, c) == IF a >= b /\ a >= c THEN a ELSE IF b >= c THEN b ELSE c

\* [x] * k
Repeat(x, k) == [j \in 1..k |-> x]

\* Series.fillna("")
fillna(x) == IF x.t \in {"none", "nan"} THEN Str("") ELSE x

\* numpy_scalar.item(): the native number
item(x) == Val(IF x.t = "np.int64" THEN "int" ELSE "float", x.v)

\* hasattr(val, 'item')
HasItem(x) == x.t \in {"np.int64", "np.float64"}

\* Series.tolist(): numpy scalars become native numbers
tolist(x) == IF HasItem(x) THEN item(x) ELSE x

\* texts = df[text_column].fillna("").astype(str).tolist()
TextsOf(d, text_column) == [k \in 1..Len(d.rows) |-> fillna(d.rows[k][text_column]).v]

\* job_ids = df['Job Id'].tolist()
JobIdsOf(d) == [k \in 1..Len(d.rows) |-> tolist(d.rows[k]["Job Id"])]

\* Mutant: the slice runs one element into the next chunk.
Slice_Overlapping(s, a, b) == SubSeq(s, a + 1, Min(b + 1, Len(s)))

\* seq[a:b] of Python, on a 1-based sequence
Slice(s, a, b) == SubSeq(s, a + 1, Min(b, Len(s)))

\* Mutant: a chunk is skipped as soon as one of its texts is empty.
any_EveryTextNonEmpty(batch) == \A k \in 1..Len(batch) : batch[k] # ""

\* any(batch): some text is a non-empty string
any(batch) == \E k \in 1..Len(batch) : batch[k] # ""

\* str.capitalize() on the service's sentiment names
capitalize(s) ==
    CASE s = "positive" -> "Positive"
      [] s = "neutral"  -> "Neutral"
      [] s = "negative" -> "Negative"
      [] s = "mixed"    -> "Mixed"
      [] OTHER          -> s

TextColumn == "Job Description"

----------------------------------------------------------------------------
\* The remote NLP service (azure.ai.textanalytics): one result or error flag
\* per input document, in input order.  An empty document is answered with
\* an error flag.
ErrorDoc == [is_error |-> TRUE, sentiment |-> "", positive |-> 0, neutral |-> 0,
             negative |-> 0, key_phrases |-> <<>>, entities |-> <<>>]

SentimentDoc(s, p, u, n) == [ErrorDoc EXCEPT !.is_error = FALSE, !.sentiment = s,
                                  !.positive = p, !.neutral = u, !.negative = n]
SentimentDocs == {SentimentDoc("positive", 90, 7, 3),
                  SentimentDoc("negative", 5, 15, 80),
                  SentimentDoc("mixed", 48, 4, 48)}

KeyPhraseDoc(ps) == [ErrorDoc EXCEPT !.is_error = FALSE, !.key_phrases = ps]
KeyPhraseDocs == {KeyPhraseDoc(<<>>), KeyPhraseDoc(<<"python">>),
                  KeyPhraseDoc(<<"sql", "python">>)}

Entity(text, category, score) ==
    [text |-> text, category |-> category, confidence_score |-> score]
EntityDoc(es) == [ErrorDoc EXCEPT !.is_error = FALSE, !.entities = es]
EntityDocs == {EntityDoc(<<>>), EntityDoc(<<Entity("Acme", "Organization", 95)>>),
               EntityDoc(<<Entity("Paris", "Location", 50),
                           Entity("Acme", "Organization", 100)>>)}

DocsOf(op) ==
    CASE op = "analyze_sentiment"   -> SentimentDocs
      [] op = "extract_key_phrases" -> KeyPhraseDocs
      [] op = "recognize_entities"  -> EntityDocs

\* The responses the service can give to one request.
Responses(op, batch) ==
    {r \in [1..Len(batch) -> DocsOf(op) \cup {ErrorDoc}] :
        \A k \in 1..Len(batch) : batch[k] = "" => r[k] = ErrorDoc}

----------------------------------------------------------------------------
\* The state before any enrichment function runs.
EnrichIdle ==
    /\ fn = "none" /\ fpc = "returned" /\ i = 0
    /\ sentiment_scores = <<>> /\ sentiment_labels = <<>> /\ results = <<>>
    /\ df_with_sentiment = Unbound /\ df_key_phrases = Unbound
    /\ df_entities = Unbound
    /\ calls = <<>> /\ chunk_log = <<>>

\* The columns of the source table that the pipeline reads, in the order
\* upsert_job_to_sql passes them.
ParamColumns ==
    <<"Job Id", "Job Title", "Company", "Company Size", "Company Profile",
      "location", "Country", "latitude", "longitude", "Role", "Job Portal",
      "Job Posting Date", "Salary Range", "Experience", "Qualifications",
      "Job Description", "Benefits", "Work Type", "Preference",
      "Contact Person", "Contact", "Responsibilities", "skills">>
JobColumns == {ParamColumns[k] : k \in 1..Len(ParamColumns)}

\* The configuration variables the two scripts read with os.getenv.
NlpVars == {"LanguageServiceEndpoint", "LanguageServiceAPI"}
SqlVars == {"SQL_SERVER", "SQL_DATABASE", "SQL_USERNAME", "SQL_PASSWORD"}
WarehouseVars == {"DATABRICKS_SERVER_HOSTNAME", "DATABRICKS_HTTP_PATH", "DATABRICKS_TOKEN"}
LlmVars == {"GOOGLE_API_KEY"}
ConfigVars == NlpVars \cup SqlVars \cup WarehouseVars \cup LlmVars

\* The state of a run with a complete configuration in which no connecting
\* function has been called.
ConfigIdle == env = ConfigVars /\ service_log = <<>> /\ agent = "unbound"

\* The state when main() is not running.
MainIdle ==
    /\ pc = "none" /\ main_df = Unbound /\ azure_client = "unbound"
    /\ sql_conn = "unbound" /\ printed = <<>> /\ entered = <<>> /\ failed = {}

\* The state before the chat page has run in a session.
ChatIdle ==
    /\ messages = <<>> /\ pending = <<>> /\ db_connected = FALSE /\ cache = {}
    /\ shown = <<>> /\ asked = <<>> /\ runs = 0 /\ rerun = FALSE
    /\ clicked = [kind |-> "none"]

\* The state before random_df_split is called.
SamplerIdle == df_sample = Unbound /\ sample_log = <<>>

\* The state before upsert_job_to_sql is called.
NoRow == [c \in {} |-> NoneV]
UpsertIdle ==
    /\ row = NoRow /\ upc = "none"
    /\ phrases_json = "" /\ entities_json = "" /\ sql_log = <<>>

\* A job row of the source table: the job id, the description, and a value
\* of its own in every other column.
JobRow(id, desc) ==
    [c \in JobColumns |->
        CASE c = "Job Id" -> Val("np.int64", id)
          [] c = TextColumn -> desc
          [] c \in {"latitude", "longitude"} -> Val("np.float64", 4850)
          [] OTHER -> Str(c)]

Descriptions == {NaN, Str(""), Str("a")}

\* Tables of n rows with job ids unique within the table.
Tables(n) ==
    {[columns |-> JobColumns,
      rows |-> [k \in 1..n |-> JobRow(IF up THEN k ELSE n + 1 - k, descs[k])]] :
        descs \in [1..n -> Descriptions], up \in BOOLEAN}

\* Entry of an enrichment function: the locals at their initial values.
Enter(name) ==
    /\ fn' = name /\ fpc' = "loop" /\ i' = 0
    /\ sentiment_scores' = <<>> /\ sentiment_labels' = <<>> /\ results' = <<>>
    /\ chunk_log' = <<>>

Chunk(outcome, batch, response) ==
    [start |-> i, batch |-> batch, outcome |-> outcome, response |-> response]

----------------------------------------------------------------------------
\* analyze_sentiment

\* Mutant: a flagged document appends nothing.
SentimentAppend_SkipsFlagged(acc, doc) ==
    IF doc.is_error THEN acc
    ELSE [scores |-> Append(acc.scores,
                            Val("float", Max3(doc.positive, doc.neutral, doc.negative))),
          labels |-> Append(acc.labels, Str(capitalize(doc.sentiment)))]

\* one pass of "for doc in response"
SentimentAppend(acc, doc) ==
    IF doc.is_error
    THEN [scores |-> Append(acc.scores, NoneV), labels |-> Append(acc.labels, NoneV)]
    ELSE [scores |-> Append(acc.scores,
                            Val("float", Max3(doc.positive, doc.neutral, doc.negative))),
          labels |-> Append(acc.labels, Str(capitalize(doc.sentiment)))]

RECURSIVE SentimentDocsLoop(_, _, _)
SentimentDocsLoop(acc, response, k) ==
    IF k > Len(response) THEN acc
    ELSE SentimentDocsLoop(SentimentAppend(acc, response[k]), response, k + 1)

\* "if not any(batch)": the chunk is skipped, no request is sent
SentimentSkip ==
    LET batch == Slice(TextsOf(df, TextColumn), i, i + batch_size) IN
    /\ fn = "analyze_sentiment" /\ fpc = "loop" /\ i < Len(df.rows)
    /\ ~any(batch)
    /\ sentiment_scores' = sentiment_scores \o Repeat(NoneV, Len(batch))
    /\ sentiment_labels' = sentiment_labels \o Repeat(NoneV, Len(batch))
    /\ i' = i + batch_size
    /\ chunk_log' = Append(chunk_log, Chunk("skipped", batch, <<>>))
    /\ UNCHANGED <<df, batch_size, fn, fpc, results, df_with_sentiment,
                   df_key_phrases, df_entities, calls>>

\* the request raises: "except Exception"
SentimentRaises ==
    LET batch == Slice(TextsOf(df, TextColumn), i, i + batch_size) IN
    /\ fn = "analyze_sentiment" /\ fpc = "loop" /\ i < Len(df.rows)
    /\ any(batch)
    /\ calls' = Append(calls, [op |-> "analyze_sentiment", docs |-> batch])
    /\ sentiment_scores' = sentiment_scores \o Repeat(NoneV, Len(batch))
    /\ sentiment_labels' = sentiment_labels \o Repeat(NoneV, Len(batch))
    /\ i' = i + batch_size
    /\ chunk_log' = Append(chunk_log, Chunk("raised", batch, <<>>))
    /\ UNCHANGED <<df, batch_size, fn, fpc, results, df_with_sentiment,
                   df_key_phrases, df_entities>>

\* the request is answered
SentimentResponds ==
    LET batch == Slice(TextsOf(df, TextColumn), i, i + batch_size) IN
    /\ fn = "analyze_sentiment" /\ fpc = "loop" /\ i < Len(df.rows)
    /\ any(batch)
    /\ calls' = Append(calls, [op |-> "analyze_sentiment", docs |-> batch])
    /\ \E response \in Responses("analyze_sentiment", batch) :
         LET acc == SentimentDocsLoop([scores |-> sentiment_scores,
                                       labels |-> sentiment_labels], response, 1) IN
         /\ sentiment_scores' = acc.scores
         /\ sentiment_labels' = acc.labels
         /\ chunk_log' = Append(chunk_log, Chunk("ok", batch, response))
    /\ i' = i + batch_size
    /\ UNCHANGED <<df, batch_size, fn, fpc, results, df_with_sentiment,
                   df_key_phrases, df_entities>>

\* df['sentiment_score'] = sentiment_scores: a list holding a float becomes a
\* float64 column (None stored as NaN, floats as numpy scalars); a list of
\* None only stays an object column.
ScoreColumn(scores) ==
    IF \E k \in 1..Len(scores) : scores[k].t = "float"
    THEN [k \in 1..Len(scores) |->
            IF scores[k].t = "none" THEN NaN ELSE Val("np.float64", scores[k].v)]
    ELSE scores

\* df = df.copy(); df[...] = ...; return df.  A list whose length differs
\* from the number of rows makes the assignment raise ValueError.
WithSentiment(d, scores, labels) ==
    IF Len(scores) # Len(d.rows) \/ Len(labels) # Len(d.rows)
    THEN Unbound
    ELSE [columns |-> d.columns \cup {"sentiment_score", "sentiment_label"},
          rows |-> [k \in 1..Len(d.rows) |->
                      d.rows[k] @@ ("sentiment_score" :> ScoreColumn(scores)[k])
                                @@ ("sentiment_label" :> labels[k])]]

SentimentReturn ==
    /\ fn = "analyze_sentiment" /\ fpc = "loop" /\ i >= Len(df.rows)
    /\ df_with_sentiment' = WithSentiment(df, sentiment_scores, sentiment_labels)
    /\ fpc' = IF df_with_sentiment' = Unbound THEN "raised" ELSE "returned"
    /\ UNCHANGED <<df, batch_size, fn, i, sentiment_scores, sentiment_labels,
                   results, df_key_phrases, df_entities, calls, chunk_log>>

analyze_sentiment ==
    /\ SentimentSkip \/ SentimentRaises \/ SentimentResponds \/ SentimentReturn
    /\ UNCHANGED <<upsert_vars, sampler_vars, config_vars, main_vars, chat_vars>>

----------------------------------------------------------------------------
\* pd.DataFrame(results): a list of dicts gives their keys as columns, an
\* empty list a DataFrame with no columns at all.
DataFrame(records, columns) ==
    IF records = <<>> THEN [columns |-> {}, rows |-> <<>>]
    ELSE [columns |-> columns, rows |-> records]

\* Mutant: the job ids are not sliced with the texts.
BatchIds_Unsliced(job_ids, start, size) == job_ids

\* batch_ids = job_ids[i:i + batch_size]
BatchIds(job_ids, start, size) == Slice(job_ids, start, start + size)

----------------------------------------------------------------------------
\* extract_key_phrases
PhraseColumns == {"job_id", "phrase", "source_field"}

PhraseRecord(job_id, phrase, text_column) ==
    [job_id |-> job_id, phrase |-> phrase, source_field |-> text_column]

\* one pass of "for doc, job_id in zip(response, batch_ids)"
PhrasesAppend(acc, doc, job_id) ==
    IF doc.is_error THEN acc
    ELSE acc \o [p \in 1..Len(doc.key_phrases) |->
                    PhraseRecord(job_id, doc.key_phrases[p], TextColumn)]

\* Mutant: the first flagged document ends the chunk ("break").
RECURSIVE PhrasesZipLoop_Break(_, _, _, _)
PhrasesZipLoop_Break(acc, response, batch_ids, k) ==
    IF k > Min(Len(response), Len(batch_ids)) \/ response[k].is_error THEN acc
    ELSE PhrasesZipLoop_Break(PhrasesAppend(acc, response[k], batch_ids[k]),
                              response, batch_ids, k + 1)

RECURSIVE PhrasesZipLoop(_, _, _, _)
PhrasesZipLoop(acc, response, batch_ids, k) ==
    IF k > Min(Len(response), Len(batch_ids)) THEN acc
    ELSE PhrasesZipLoop(PhrasesAppend(acc, response[k], batch_ids[k]),
                        response, batch_ids, k + 1)

PhrasesRaises ==
    LET batch_texts == Slice(TextsOf(df, TextColumn), i, i + batch_size) IN
    /\ fn = "extract_key_phrases" /\ fpc = "loop" /\ i < Len(df.rows)
    /\ calls' = Append(calls, [op |-> "extract_key_phrases", docs |-> batch_texts])
    /\ chunk_log' = Append(chunk_log, Chunk("raised", batch_texts, <<>>))
    /\ i' = i + batch_size
    /\ UNCHANGED <<df, batch_size, fn, fpc, sentiment_scores, sentiment_labels,
                   results, df_with_sentiment, df_key_phrases, df_entities>>

PhrasesResponds ==
    LET batch_texts == Slice(TextsOf(df, TextColumn), i, i + batch_size)
        batch_ids == BatchIds(JobIdsOf(df), i, batch_size) IN
    /\ fn = "extract_key_phrases" /\ fpc = "loop" /\ i < Len(df.rows)
    /\ calls' = Append(calls, [op |-> "extract_key_phrases", docs |-> batch_texts])
    /\ \E response \in Responses("extract_key_phrases", batch_texts) :
         /\ results' = PhrasesZipLoop(results, response, batch_ids, 1)
         /\ chunk_log' = Append(chunk_log, Chunk("ok", batch_texts, response))
    /\ i' = i + batch_size
    /\ UNCHANGED <<df, batch_size, fn, fpc, sentiment_scores, sentiment_labels,
                   df_with_sentiment, df_key_phrases, df_entities>>

PhrasesReturn ==
    /\ fn = "extract_key_phrases" /\ fpc = "loop" /\ i >= Len(df.rows)
    /\ df_key_phrases' = DataFrame(results, PhraseColumns)
    /\ fpc' = "returned"
    /\ UNCHANGED <<df, batch_size, fn, i, sentiment_scores, sentiment_labels,
                   results, df_with_sentiment, df_entities, calls, chunk_log>>

extract_key_phrases ==
    /\ PhrasesRaises \/ PhrasesResponds \/ PhrasesReturn
    /\ UNCHANGED <<upsert_vars, sampler_vars, config_vars, main_vars, chat_vars>>

----------------------------------------------------------------------------
\* recognize_entities
EntityColumns == {"job_id", "entity_name", "entity_type", "confidence"}

EntityRecord(job_id, entity) ==
    [job_id |-> job_id, entity_name |-> entity.text,
     entity_type |-> entity.category, confidence |-> entity.confidence_score]

EntitiesAppend(acc, doc, job_id) ==
    IF doc.is_error THEN acc
    ELSE acc \o [e \in 1..Len(doc.entities) |-> EntityRecord(job_id, doc.entities[e])]

RECURSIVE EntitiesZipLoop(_, _, _, _)
EntitiesZipLoop(acc, response, batch_ids, k) ==
    IF k > Min(Len(response), Len(batch_ids)) THEN acc
    ELSE EntitiesZipLoop(EntitiesAppend(acc, response[k], batch_ids[k]),
                         response, batch_ids, k + 1)

EntitiesRaises ==
    LET batch_texts == Slice(TextsOf(df, TextColumn), i, i + batch_size) IN
    /\ fn = "recognize_entities" /\ fpc = "loop" /\ i < Len(df.rows)
    /\ calls' = Append(calls, [op |-> "recognize_entities", docs |-> batch_texts])
    /\ chunk_log' = Append(chunk_log, Chunk("raised", batch_texts, <<>>))
    /\ i' = i + batch_size
    /\ UNCHANGED <<df, batch_size, fn, fpc, sentiment_scores, sentiment_labels,
                   results, df_with_sentiment, df_key_phrases, df_entities>>

EntitiesResponds ==
    LET batch_texts == Slice(TextsOf(df, TextColumn), i, i + batch_size)
        batch_ids == BatchIds(JobIdsOf(df), i, batch_size) IN
    /\ fn = "recognize_entities" /\ fpc = "loop" /\ i < Len(df.rows)
    /\ calls' = Append(calls, [op |-> "recognize_entities", docs |-> batch_texts])
    /\ \E response \in Responses("recognize_entities", batch_texts) :
         /\ results' = EntitiesZipLoop(results, response, batch_ids, 1)
         /\ chunk_log' = Append(chunk_log, Chunk("ok", batch_texts, response))
    /\ i' = i + batch_size
    /\ UNCHANGED <<df, batch_size, fn, fpc, sentiment_scores, sentiment_labels,
                   df_with_sentiment, df_key_phrases, df_entities>>

EntitiesReturn ==
    /\ fn = "recognize_entities" /\ fpc = "loop" /\ i >= Len(df.rows)
    /\ df_entities' = DataFrame(results, EntityColumns)
    /\ fpc' = "returned"
    /\ UNCHANGED <<df, batch_size, fn, i, sentiment_scores, sentiment_labels,
                   results, df_with_sentiment, df_key_phrases, calls, chunk_log>>

recognize_entities ==
    /\ EntitiesRaises \/ EntitiesResponds \/ EntitiesReturn
    /\ UNCHANGED <<upsert_vars, sampler_vars, config_vars, main_vars, chat_vars>>

----------------------------------------------------------------------------
InitEnrich ==
    /\ ChatIdle
    /\ EnrichIdle /\ UpsertIdle /\ SamplerIdle /\ ConfigIdle /\ MainIdle
    /\ \E n \in 0..MaxRows : df \in Tables(n)
    /\ batch_size \in 1..MaxBatch

CallEnrich ==
    /\ fn = "none"
    /\ \E name \in {"analyze_sentiment", "extract_key_phrases", "recognize_entities"} :
         Enter(name)
    /\ UNCHANGED <<df, batch_size, df_with_sentiment, df_key_phrases,
                   df_entities, calls>>
    /\ UNCHANGED <<upsert_vars, sampler_vars, config_vars, main_vars, chat_vars>>

NextEnrich ==
    CallEnrich \/ analyze_sentiment \/ extract_key_phrases \/ recognize_entities

SpecEnrich == InitEnrich /\ [][NextEnrich]_vars

----------------------------------------------------------------------------
\* upsert_job_to_sql

\* row.get(key)
get(r, key) == IF key \in DOMAIN r THEN r[key] ELSE NoneV

\* Mutant: a missing value is passed as the number zero.
to_python_ZeroForMissing(val) ==
    IF val.t = "none" \/ val.t = "nan" THEN Val("float", 0)
    ELSE IF HasItem(val) THEN item(val)
    ELSE val

\* to_python(val)
to_python(val) ==
    IF val.t = "none" \/ val.t = "nan" THEN NoneV
    ELSE IF HasItem(val) THEN item(val)
    ELSE val

\* json.dumps of a str (the texts of the model need no escaping)
JsonString(s) == "\"" \o s \o "\""

\* json.dumps of float(x), x in hundredths: repr of the float
JsonFloat(x) ==
    LET whole == ToString(x \div 100)
        frac == x % 100
    IN IF frac % 10 = 0 THEN whole \o "." \o ToString(frac \div 10)
       ELSE IF frac < 10 THEN whole \o ".0" \o ToString(frac)
       ELSE whole \o "." \o ToString(frac)

\* {"phrase": r['phrase'], "source": r['source_field']}
PhraseObject(r) ==
    "{\"phrase\": " \o JsonString(r.phrase) \o
    ", \"source\": " \o JsonString(r.source_field) \o "}"

\* {"entity": r['entity_name'], "type": r['entity_type'],
\*  "confidence": float(r['confidence'])}
EntityObject(r) ==
    "{\"entity\": " \o JsonString(r.entity_name) \o
    ", \"type\": " \o JsonString(r.entity_type) \o
    ", \"confidence\": " \o JsonFloat(r.confidence) \o "}"

\* json.dumps of a list of objects already rendered
RECURSIVE JsonItems(_, _)
JsonItems(objs, k) ==
    IF k > Len(objs) THEN ""
    ELSE IF k = Len(objs) THEN objs[k]
    ELSE objs[k] \o ", " \o JsonItems(objs, k + 1)
dumps(objs) == "[" \o JsonItems(objs, 1) \o "]"

\* Mutant: the collection is not filtered by job id.
JobRecords_Unfiltered(d, job_id) == d.rows

\* d[d['job_id'] == job_id]: the rows of this job, in order
JobRecords(d, job_id) == SelectSeq(d.rows, LAMBDA r : r.job_id.v = job_id.v)

\* "1. Build key phrases JSON for this job"
PhrasesJson(d, job_id) ==
    LET job_phrases == JobRecords(d, job_id) IN
    IF job_phrases # <<>>
    THEN dumps([k \in 1..Len(job_phrases) |-> PhraseObject(job_phrases[k])])
    ELSE "[]"

\* "2. Build entities JSON for this job"
EntitiesJson(d, job_id) ==
    LET job_entities == JobRecords(d, job_id) IN
    IF job_entities # <<>>
    THEN dumps([k \in 1..Len(job_entities) |-> EntityObject(job_entities[k])])
    ELSE "[]"

\* The parameters named in the EXEC sp_UpsertJob statement, in its order.
ProcParams ==
    <<"job_id", "job_title", "company_name", "company_size", "company_profile",
      "city", "country", "latitude", "longitude", "role_name", "portal_name",
      "posting_date", "salary_range", "experience", "qualifications",
      "job_description", "benefits", "work_type", "preference",
      "contact_person", "contact_number", "responsibilities", "skills_string",
      "key_phrases_json", "entities_json", "sentiment_score">>

\* The tuple of values passed with the statement.
UpsertParams(r, pj, ej) ==
    [k \in 1..Len(ParamColumns) |-> to_python(get(r, ParamColumns[k]))]
    \o <<Str(pj), Str(ej), to_python(get(r, "sentiment_score"))>>

SqlEvent(kind, statement, names, params, ok) ==
    [kind |-> kind, statement |-> statement, names |-> names,
     params |-> params, ok |-> ok]

\* df_key_phrases['job_id'] / df_entities['job_id'] raises KeyError on a
\* DataFrame without that column
UpsertKeyError ==
    /\ upc = "json"
    /\ "job_id" \notin df_key_phrases.columns \/ "job_id" \notin df_entities.columns
    /\ phrases_json' = IF "job_id" \in df_key_phrases.columns
                       THEN PhrasesJson(df_key_phrases, row["Job Id"])
                       ELSE phrases_json
    /\ upc' = "raised"
    /\ UNCHANGED <<row, entities_json, sql_log>>

UpsertBuildJson ==
    /\ upc = "json"
    /\ "job_id" \in df_key_phrases.columns /\ "job_id" \in df_entities.columns
    /\ phrases_json' = PhrasesJson(df_key_phrases, row["Job Id"])
    /\ entities_json' = EntitiesJson(df_entities, row["Job Id"])
    /\ upc' = "execute"
    /\ UNCHANGED <<row, sql_log>>

\* cursor.execute("EXEC sp_UpsertJob ...", (...)) succeeds
UpsertExecute ==
    /\ upc = "execute"
    /\ sql_log' = Append(sql_log,
                         SqlEvent("execute", "sp_UpsertJob", ProcParams,
                                  UpsertParams(row, phrases_json, entities_json), TRUE))
    /\ upc' = "commit"
    /\ UNCHANGED <<row, phrases_json, entities_json>>

\* Mutant: a failing execute is swallowed and the call goes on to commit.
UpsertExecuteFails_Swallowed ==
    /\ upc = "execute"
    /\ sql_log' = Append(sql_log,
                         SqlEvent("execute", "sp_UpsertJob", ProcParams,
                                  UpsertParams(row, phrases_json, entities_json), FALSE))
    /\ upc' = "commit"
    /\ UNCHANGED <<row, phrases_json, entities_json>>

\* cursor.execute raises: the exception leaves upsert_job_to_sql
UpsertExecuteFails ==
    /\ upc = "execute"
    /\ sql_log' = Append(sql_log,
                         SqlEvent("execute", "sp_UpsertJob", ProcParams,
                                  UpsertParams(row, phrases_json, entities_json), FALSE))
    /\ upc' = "raised"
    /\ UNCHANGED <<row, phrases_json, entities_json>>

\* conn.commit(); return job_id
UpsertCommit ==
    /\ upc = "commit"
    /\ sql_log' = Append(sql_log, SqlEvent("commit", "", <<>>, <<>>, TRUE))
    /\ upc' = "returned"
    /\ UNCHANGED <<row, phrases_json, entities_json>>

\* conn.commit() raises
UpsertCommitFails ==
    /\ upc = "commit"
    /\ sql_log' = Append(sql_log, SqlEvent("commit", "", <<>>, <<>>, FALSE))
    /\ upc' = "raised"
    /\ UNCHANGED <<row, phrases_json, entities_json>>

upsert_job_to_sql ==
    /\ \/ UpsertKeyError \/ UpsertBuildJson
       \/ UpsertExecute \/ UpsertExecuteFails
       \/ UpsertCommit \/ UpsertCommitFails
    /\ UNCHANGED <<enrich_vars, sampler_vars, config_vars, main_vars, chat_vars>>

\* Bound of the model: the records a collection holds.
MaxRecords == 2

JobIds == {1, 2}

\* The rows upsert_job_to_sql is given: enriched job rows.
EnrichedRows ==
    {JobRow(id, Str("a")) @@ ("sentiment_score" :> score)
                          @@ ("sentiment_label" :>
                                IF IsNull(score) THEN NoneV ELSE Str("Positive")) :
        id \in JobIds, score \in {NoneV, NaN, Val("np.float64", 90)}}

\* The key-phrase collections: what extract_key_phrases can return.
PhraseFrames ==
    LET recs == {PhraseRecord(Val("int", id), p, TextColumn) :
                    id \in JobIds, p \in {"python", "sql"}}
    IN {DataFrame(rs, PhraseColumns) :
            rs \in UNION {[1..n -> recs] : n \in 0..MaxRecords}}

\* The entity collections: what recognize_entities can return.
EntityFrames ==
    LET recs == {EntityRecord(Val("int", id), e) :
                    id \in JobIds, e \in {Entity("Acme", "Organization", 95),
                                          Entity("Paris", "Location", 100)}}
    IN {DataFrame(rs, EntityColumns) :
            rs \in UNION {[1..n -> recs] : n \in 0..MaxRecords}}

InitUpsert ==
    /\ ChatIdle
    /\ df = Unbound /\ batch_size = DefaultBatchSize
    /\ fn = "none" /\ fpc = "returned" /\ i = 0
    /\ sentiment_scores = <<>> /\ sentiment_labels = <<>> /\ results = <<>>
    /\ df_with_sentiment = Unbound
    /\ calls = <<>> /\ chunk_log = <<>>
    /\ df_key_phrases \in PhraseFrames
    /\ df_entities \in EntityFrames
    /\ row \in EnrichedRows
    /\ upc = "none" /\ phrases_json = "" /\ entities_json = "" /\ sql_log = <<>>
    /\ SamplerIdle /\ ConfigIdle /\ MainIdle

\* upsert_job_to_sql(conn, row, df_key_phrases, df_entities) is called
CallUpsert ==
    /\ upc = "none"
    /\ upc' = "json"
    /\ UNCHANGED <<row, phrases_json, entities_json, sql_log>>
    /\ UNCHANGED <<enrich_vars, sampler_vars, config_vars, main_vars, chat_vars>>

NextUpsert == CallUpsert \/ upsert_job_to_sql

SpecUpsert == InitUpsert /\ [][NextUpsert]_vars

----------------------------------------------------------------------------
\* upsert_job_to_sql on job records with missing fields.

\* What a cell of the record can hold: None, NaN, an empty or non-empty
\* str, and a zero or non-zero number, native or numpy.
CellValues ==
    {NoneV, NaN, Str(""), Str("text"),
     Val("int", 0), Val("float", 0), Val("np.int64", 0), Val("np.float64", 0),
     Val("np.int64", 7), Val("np.float64", 90)}

\* The fields read with row.get(...); 'Job Id' is also read with row[...]
\* and compared with the collections' job ids, so the records below keep it.
GetColumns == {ParamColumns[k] : k \in 1..Len(ParamColumns)} \cup {"sentiment_score"}

Without(r, c) == [x \in DOMAIN r \ {c} |-> r[x]]
With(r, c, v) == [x \in DOMAIN r \cup {c} |-> IF x = c THEN v ELSE r[x]]

\* The records upsert_job_to_sql is given here: an enriched row in which
\* one field is absent or holds any of the cell values.
ParamRows ==
    UNION {{Without(r, c)} \cup {With(r, c, v) : v \in CellValues} :
             r \in EnrichedRows, c \in GetColumns \ {"Job Id"}}

InitParams ==
    /\ ChatIdle
    /\ SamplerIdle /\ ConfigIdle /\ MainIdle
    /\ df = Unbound /\ batch_size = DefaultBatchSize
    /\ fn = "none" /\ fpc = "returned" /\ i = 0
    /\ sentiment_scores = <<>> /\ sentiment_labels = <<>> /\ results = <<>>
    /\ df_with_sentiment = Unbound
    /\ calls = <<>> /\ chunk_log = <<>>
    /\ df_key_phrases \in {DataFrame(<<>>, PhraseColumns),
                           DataFrame(<<PhraseRecord(Val("int", 1), "python", TextColumn)>>,
                                     PhraseColumns)}
    /\ df_entities = DataFrame(<<EntityRecord(Val("int", 1),
                                              Entity("Acme", "Organization", 95))>>,
                               EntityColumns)
    /\ row \in ParamRows
    /\ upc = "none" /\ phrases_json = "" /\ entities_json = "" /\ sql_log = <<>>

SpecParams == InitParams /\ [][NextUpsert]_vars

----------------------------------------------------------------------------
\* random_df_split

\* random_state=42
RandomState == 42

\* The pseudo-random generator behind DataFrame.sample: a stream of numbers
\* that the seed alone determines (a linear congruential stream stands for
\* numpy's generator).
NextRandom(x) == (x * 75 + 74) % 65537

\* permutation(n) of that generator: a shuffle driven by the stream
RECURSIVE Shuffle(_, _, _)
Shuffle(perm, x, j) ==
    IF j <= 1 THEN perm
    ELSE LET r == (NextRandom(x) % j) + 1
             swapped == [perm EXCEPT ![j] = perm[r], ![r] = perm[j]]
         IN Shuffle(swapped, NextRandom(x), j - 1)
Permutation(seed, n) == Shuffle([k \in 1..n |-> k], seed, n)

\* df.sample(n=numrows, random_state=seed): the first numrows rows of the
\* seeded permutation of the rows (sampling without replacement)
sample(d, numrows, seed) ==
    [columns |-> d.columns,
     rows |-> [k \in 1..numrows |-> d.rows[Permutation(seed, Len(d.rows))[k]]]]

\* Mutant: no random_state is given, the generator is seeded from entropy.
Seeds_FromEntropy(random_state) == 1..4

\* The seeds a call may run with: random_state is the literal 42.
Seeds(random_state) == {random_state}

\* random_df_split(df, numrows): the frame returned, or Unbound when it
\* raises ValueError
random_df_split(d, numrows, seed) ==
    IF numrows > Len(d.rows) THEN Unbound
    ELSE sample(d, numrows, seed)

\* Bound of the model: the calls of random_df_split in one run.
MaxSampleCalls == 2

CallRandomDfSplit ==
    /\ Len(sample_log) < MaxSampleCalls
    /\ \E numrows \in 0..(MaxRows + 1), seed \in Seeds(RandomState) :
         /\ df_sample' = random_df_split(df, numrows, seed)
         /\ sample_log' = Append(sample_log,
                                 [numrows |-> numrows,
                                  raised |-> df_sample' = Unbound,
                                  value |-> df_sample'])
    /\ UNCHANGED <<enrich_vars, upsert_vars, config_vars, main_vars, chat_vars>>

InitSampler ==
    /\ ChatIdle
    /\ EnrichIdle /\ UpsertIdle /\ SamplerIdle /\ ConfigIdle /\ MainIdle
    /\ \E n \in 0..MaxRows : df \in Tables(n)
    /\ batch_size = DefaultBatchSize

NextSampler == CallRandomDfSplit

SpecSampler == InitSampler /\ [][NextSampler]_vars

----------------------------------------------------------------------------
\* The functions that connect to the external services.  Each is given as
\* the set of its possible outcomes under the configuration e:
\*   result   "ok", "ValueError" (raised by the function's own check) or
\*            "error" (raised by the client library)
\*   network  whether the service's client was asked to reach the service
\*   open     whether a connection is left open when the function ends
\*   value    what the function returns
Outcome(result, network, open, value) ==
    [result |-> result, network |-> network, open |-> open, value |-> value]

\* authenticate_azure_client(): checks both settings, then builds the client
authenticate_azure_client(e) ==
    IF ~(NlpVars \subseteq e)
    THEN {Outcome("ValueError", FALSE, FALSE, "unbound")}
    ELSE {Outcome("ok", FALSE, FALSE, "client")}

\* authenticate_databricks_client() followed by main()'s clusters.list():
\* the SDK reads its own configuration and raises or not; "if not w" never
\* holds for a constructed client
authenticate_databricks_client(e) ==
    {Outcome("error", FALSE, FALSE, "unbound"),
     Outcome("error", TRUE, FALSE, "unbound"),
     Outcome("ok", TRUE, FALSE, "client")}

\* connect_to_sql_server(): checks the four settings, then pyodbc.connect
connect_to_sql_server(e) ==
    IF ~(SqlVars \subseteq e)
    THEN {Outcome("ValueError", FALSE, FALSE, "unbound")}
    ELSE {Outcome("error", TRUE, FALSE, "unbound"),
          Outcome("ok", TRUE, TRUE, "open")}

\* The sample size main() asks for.  main() asks for 20 rows (line 472); the
\* model scales the request down to 2 rows so that every per-document
\* outcome of the three enrichment stages can be enumerated.
SampleRows == 2

\* The tables the warehouse can hold: 0 to SampleRows + 1 job rows.
WarehouseTables ==
    UNION {{[columns |-> JobColumns,
             rows |-> [k \in 1..n |-> JobRow(k, descs[k])]] :
               descs \in [1..n -> {Str(""), Str("a")}]} : n \in 0..(SampleRows + 1)}

\* load_data_from_databricks(...): sql.connect is called with whatever
\* os.getenv returned, without a check; then the query runs, the rows are
\* fetched, cursor and connection are closed.  With a setting missing the
\* connector is handed None: it fails, before or after trying to reach the
\* warehouse.  An exception from cursor.execute / fetchall skips the close.
load_data_from_databricks(e) ==
    IF ~(WarehouseVars \subseteq e)
    THEN {Outcome("error", FALSE, FALSE, Unbound),
          Outcome("error", TRUE, FALSE, Unbound)}
    ELSE {Outcome("error", TRUE, FALSE, Unbound),
          Outcome("error", TRUE, TRUE, Unbound)}
         \cup {Outcome("ok", TRUE, FALSE, t) : t \in WarehouseTables}

\* connect_to_sql_database() of the chat script: checks the four settings,
\* then create_engine and SQLDatabase(engine)
connect_to_sql_database(e) ==
    IF ~(SqlVars \subseteq e)
    THEN {Outcome("ValueError", FALSE, FALSE, "unbound")}
    ELSE {Outcome("error", TRUE, FALSE, "unbound"),
          Outcome("ok", TRUE, TRUE, "db")}

\* create_gemini_sql_agent(db) of the chat script: the model client is built
\* with os.getenv("GOOGLE_API_KEY"), without a check; no request is sent
\* yet.  Without a key the library refuses or builds a client without one.
create_gemini_sql_agent(e) ==
    IF ~(LlmVars \subseteq e)
    THEN {Outcome("error", FALSE, FALSE, "unbound"),
          Outcome("ok", FALSE, FALSE, "built")}
    ELSE {Outcome("ok", FALSE, FALSE, "built")}

\* agent.invoke({"input": question}) inside query_database: a request to the
\* hosted model, answered or not
agent_invoke(e) ==
    IF ~(LlmVars \subseteq e)
    THEN {Outcome("error", TRUE, FALSE, "error")}
    ELSE {Outcome("error", TRUE, FALSE, "error"),
          Outcome("ok", TRUE, FALSE, "answer")}

ServiceEvent(name, service, o) ==
    [fn |-> name, service |-> service, result |-> o.result, network |-> o.network,
     open |-> o.open]

\* Bounds of the model: the settings missing from a configuration, and the
\* connecting functions called in one run of SpecConfig.
MaxMissing == 1
MaxConfigCalls == 2

Envs == {ConfigVars \ m : m \in {x \in SUBSET ConfigVars : Cardinality(x) <= MaxMissing}}

CallAuthenticateAzure ==
    /\ \E o \in authenticate_azure_client(env) :
         service_log' = Append(service_log, ServiceEvent("authenticate_azure_client", "nlp", o))
    /\ UNCHANGED <<env, agent>>

CallConnectToSqlServer ==
    /\ \E o \in connect_to_sql_server(env) :
         service_log' = Append(service_log, ServiceEvent("connect_to_sql_server", "sql", o))
    /\ UNCHANGED <<env, agent>>

CallLoadDataFromDatabricks ==
    /\ \E o \in load_data_from_databricks(env) :
         service_log' = Append(service_log,
                               ServiceEvent("load_data_from_databricks", "warehouse", o))
    /\ UNCHANGED <<env, agent>>

CallConnectToSqlDatabase ==
    /\ \E o \in connect_to_sql_database(env) :
         service_log' = Append(service_log, ServiceEvent("connect_to_sql_database", "sql", o))
    /\ UNCHANGED <<env, agent>>

CallCreateGeminiSqlAgent ==
    /\ agent = "unbound"
    /\ \E o \in create_gemini_sql_agent(env) :
         /\ service_log' = Append(service_log, ServiceEvent("create_gemini_sql_agent", "llm", o))
         /\ agent' = o.value
    /\ UNCHANGED env

\* query_database(agent, question)
CallQueryDatabase ==
    /\ agent = "built"
    /\ \E o \in agent_invoke(env) :
         service_log' = Append(service_log, ServiceEvent("query_database", "llm", o))
    /\ UNCHANGED <<env, agent>>

InitConfig ==
    /\ ChatIdle
    /\ EnrichIdle /\ UpsertIdle /\ SamplerIdle /\ MainIdle
    /\ df = Unbound /\ batch_size = DefaultBatchSize
    /\ env \in Envs /\ service_log = <<>> /\ agent = "unbound"

NextConfig ==
    /\ Len(service_log) < MaxConfigCalls
    /\ \/ CallAuthenticateAzure \/ CallConnectToSqlServer
       \/ CallLoadDataFromDatabricks \/ CallConnectToSqlDatabase
       \/ CallCreateGeminiSqlAgent \/ CallQueryDatabase
    /\ UNCHANGED <<enrich_vars, upsert_vars, sampler_vars, main_vars, chat_vars>>

SpecConfig == InitConfig /\ [][NextConfig]_vars

----------------------------------------------------------------------------
\* main() of the pipeline script.  Its stages, in order:
Stages == <<"auth_azure", "auth_databricks", "auth_sql", "load", "sample",
            "nlp", "display", "write">>

\* a stage starts
Start(stage) == entered' = Append(entered, stage)

\* "except Exception as e: print(...)"
Caught(stage, text) ==
    /\ printed' = Append(printed, [stage |-> stage, text |-> text])
    /\ failed' = failed \cup {stage}

NotCaught == UNCHANGED <<printed, failed>>

\* authenticate_azure_client(); on an exception print and exit(1)
MainAuthAzure ==
    /\ pc = "auth_azure" /\ Start("auth_azure")
    /\ \E o \in authenticate_azure_client(env) :
         /\ service_log' = Append(service_log,
                                  ServiceEvent("authenticate_azure_client", "nlp", o))
         /\ azure_client' = o.value
         /\ IF o.result = "ok"
            THEN NotCaught /\ pc' = "auth_databricks"
            ELSE Caught("auth_azure", "An error occurred") /\ pc' = "exited"
    /\ UNCHANGED <<env, agent, main_df, sql_conn>>
    /\ UNCHANGED <<enrich_vars, upsert_vars, sampler_vars, chat_vars>>

\* authenticate_databricks_client() and the cluster listing; on an exception
\* print and exit(1)
MainAuthDatabricks ==
    /\ pc = "auth_databricks" /\ Start("auth_databricks")
    /\ \E o \in authenticate_databricks_client(env) :
         /\ service_log' = Append(service_log,
                                  ServiceEvent("authenticate_databricks_client",
                                               "workspace", o))
         /\ IF o.result = "ok"
            THEN NotCaught /\ pc' = "auth_sql"
            ELSE Caught("auth_databricks", "An error occurred") /\ pc' = "exited"
    /\ UNCHANGED <<env, agent, main_df, azure_client, sql_conn>>
    /\ UNCHANGED <<enrich_vars, upsert_vars, sampler_vars, chat_vars>>

\* connect_to_sql_server(), the test query, sql_conn.close(); on an
\* exception print and exit(1).  An exception from the test query skips the
\* close.
MainAuthSql ==
    /\ pc = "auth_sql" /\ Start("auth_sql")
    /\ \E o \in connect_to_sql_server(env), query_ok \in BOOLEAN :
         /\ service_log' = Append(service_log,
                                  ServiceEvent("connect_to_sql_server", "sql", o))
         /\ IF o.result = "ok" /\ query_ok
            THEN NotCaught /\ sql_conn' = "closed" /\ pc' = "load"
            ELSE /\ Caught("auth_sql", "SQL Server connection failed")
                 /\ sql_conn' = o.value
                 /\ pc' = "exited"
    /\ UNCHANGED <<env, agent, main_df, azure_client>>
    /\ UNCHANGED <<enrich_vars, upsert_vars, sampler_vars, chat_vars>>

\* load_data_from_databricks(...); an exception is printed and main() goes
\* on with df unbound
MainLoad ==
    /\ pc = "load" /\ Start("load")
    /\ \E o \in load_data_from_databricks(env) :
         /\ service_log' = Append(service_log,
                                  ServiceEvent("load_data_from_databricks",
                                               "warehouse", o))
         /\ main_df' = o.value
         /\ IF o.result = "ok" THEN NotCaught
            ELSE Caught("load", "An error occurred")
    /\ pc' = "sample"
    /\ UNCHANGED <<env, agent, azure_client, sql_conn>>
    /\ UNCHANGED <<enrich_vars, upsert_vars, sampler_vars, chat_vars>>

\* Mutant: a failed sampling ends main().
MainSample_ReturnsOnFailure ==
    /\ pc = "sample" /\ Start("sample")
    /\ LET drawn == IF main_df = Unbound THEN Unbound
                    ELSE random_df_split(main_df, SampleRows, RandomState)
       IN /\ df_sample' = drawn
          /\ IF drawn = Unbound
             THEN Caught("sample", "An error occurred while sampling")
                  /\ pc' = "returned"
             ELSE NotCaught /\ pc' = "nlp"
    /\ UNCHANGED <<sample_log, config_vars, main_df, azure_client, sql_conn>>
    /\ UNCHANGED <<enrich_vars, upsert_vars, chat_vars>>

\* random_df_split(df, ...); an exception (df unbound, or too few rows) is
\* printed and main() goes on with df_sample unbound
MainSample ==
    /\ pc = "sample" /\ Start("sample")
    /\ LET drawn == IF main_df = Unbound THEN Unbound
                    ELSE random_df_split(main_df, SampleRows, RandomState)
       IN /\ df_sample' = drawn
          /\ IF drawn = Unbound
             THEN Caught("sample", "An error occurred while sampling")
             ELSE NotCaught
    /\ pc' = "nlp"
    /\ UNCHANGED <<sample_log, config_vars, main_df, azure_client, sql_conn>>
    /\ UNCHANGED <<enrich_vars, upsert_vars, chat_vars>>

\* run_all_nlp_analysis(azure_client, df_sample, 'Job Description') is
\* called: with df_sample unbound the call raises, main() prints and
\* returns; otherwise analyze_sentiment starts with the default batch size
MainNlp ==
    /\ pc = "nlp" /\ Start("nlp")
    /\ IF df_sample = Unbound
       THEN /\ Caught("nlp", "An error occurred during NLP analysis")
            /\ pc' = "returned"
            /\ UNCHANGED <<df, batch_size, fn, fpc, i, sentiment_scores,
                           sentiment_labels, results, chunk_log>>
       ELSE /\ NotCaught
            /\ pc' = "nlp_run"
            /\ df' = df_sample /\ batch_size' = DefaultBatchSize
            /\ Enter("analyze_sentiment")
    /\ UNCHANGED <<df_with_sentiment, df_key_phrases, df_entities, calls>>
    /\ UNCHANGED <<config_vars, main_df, azure_client, sql_conn>>
    /\ UNCHANGED <<upsert_vars, sampler_vars, chat_vars>>

\* run_all_nlp_analysis after analyze_sentiment: the label counts are
\* printed and extract_key_phrases starts
RunNlpSentimentDone ==
    /\ pc = "nlp_run" /\ fn = "analyze_sentiment" /\ fpc = "returned"
    /\ Enter("extract_key_phrases")
    /\ UNCHANGED <<df, batch_size, df_with_sentiment, df_key_phrases,
                   df_entities, calls>>
    /\ UNCHANGED <<upsert_vars, sampler_vars, config_vars, main_vars, chat_vars>>

\* run_all_nlp_analysis after extract_key_phrases: df_key_phrases['job_id']
\* is read for the count line, which raises KeyError on a frame without
\* columns; main() prints and returns.  Otherwise recognize_entities starts.
RunNlpPhrasesDone ==
    /\ pc = "nlp_run" /\ fn = "extract_key_phrases" /\ fpc = "returned"
    /\ IF "job_id" \notin df_key_phrases.columns
       THEN /\ Caught("nlp", "An error occurred during NLP analysis")
            /\ pc' = "returned"
            /\ fn' = "none"
            /\ UNCHANGED <<fpc, i, sentiment_scores, sentiment_labels, results,
                           chunk_log>>
       ELSE /\ NotCaught
            /\ pc' = pc
            /\ Enter("recognize_entities")
    /\ UNCHANGED <<df, batch_size, df_with_sentiment, df_key_phrases,
                   df_entities, calls>>
    /\ UNCHANGED <<main_df, azure_client, sql_conn, entered>>
    /\ UNCHANGED <<upsert_vars, sampler_vars, config_vars, chat_vars>>

\* run_all_nlp_analysis after recognize_entities: df_entities['job_id'] and
\* df_entities['entity_type'] are read for the count lines (KeyError on a
\* frame without columns); otherwise the three frames are returned to main()
RunNlpEntitiesDone ==
    /\ pc = "nlp_run" /\ fn = "recognize_entities" /\ fpc = "returned"
    /\ IF "job_id" \notin df_entities.columns
       THEN /\ Caught("nlp", "An error occurred during NLP analysis")
            /\ pc' = "returned"
       ELSE /\ NotCaught
            /\ pc' = "display"
    /\ fn' = "none"
    /\ UNCHANGED <<df, batch_size, fpc, i, sentiment_scores, sentiment_labels,
                   results, df_with_sentiment, df_key_phrases, df_entities,
                   calls, chunk_log>>
    /\ UNCHANGED <<main_df, azure_client, sql_conn, entered>>
    /\ UNCHANGED <<upsert_vars, sampler_vars, config_vars, chat_vars>>

\* "Display sample results": the three frames are printed
MainDisplay ==
    /\ pc = "display" /\ Start("display")
    /\ pc' = "write"
    /\ UNCHANGED <<main_df, azure_client, sql_conn, printed, failed>>
    /\ UNCHANGED <<enrich_vars, upsert_vars, sampler_vars, config_vars, chat_vars>>

\* The write section up to the call of upsert_job_to_sql: connect, take
\* df_with_sentiment.iloc[0]; an exception is printed and main() ends
MainWrite ==
    /\ pc = "write" /\ Start("write")
    /\ \E o \in connect_to_sql_server(env) :
         /\ service_log' = Append(service_log,
                                  ServiceEvent("connect_to_sql_server", "sql", o))
         /\ sql_conn' = IF o.result = "ok" THEN "open" ELSE sql_conn
         /\ IF o.result = "ok" /\ df_with_sentiment.rows # <<>>
            THEN /\ NotCaught
                 /\ row' = df_with_sentiment.rows[1]
                 /\ upc' = "json"
                 /\ pc' = "write_upsert"
            ELSE /\ Caught("write", "Error inserting job")
                 /\ UNCHANGED <<row, upc>>
                 /\ pc' = "done"
    /\ UNCHANGED <<phrases_json, entities_json, sql_log>>
    /\ UNCHANGED <<env, agent, main_df, azure_client>>
    /\ UNCHANGED <<enrich_vars, sampler_vars, chat_vars>>

\* upsert_job_to_sql raised: the exception is printed and main() ends
MainWriteUpsertRaised ==
    /\ pc = "write_upsert" /\ upc = "raised"
    /\ Caught("write", "Error inserting job")
    /\ pc' = "done"
    /\ UNCHANGED <<main_df, azure_client, sql_conn, entered>>
    /\ UNCHANGED <<enrich_vars, upsert_vars, sampler_vars, config_vars, chat_vars>>

\* upsert_job_to_sql returned: the row is read back, the connection is
\* closed; an exception from the query is printed and skips the close
MainWriteVerify ==
    /\ pc = "write_upsert" /\ upc = "returned"
    /\ \E query_ok \in BOOLEAN :
         IF query_ok
         THEN NotCaught /\ sql_conn' = "closed"
         ELSE Caught("write", "Error inserting job") /\ sql_conn' = sql_conn
    /\ pc' = "done"
    /\ UNCHANGED <<main_df, azure_client, entered>>
    /\ UNCHANGED <<enrich_vars, upsert_vars, sampler_vars, config_vars, chat_vars>>

InitMain ==
    /\ ChatIdle
    /\ EnrichIdle /\ UpsertIdle /\ SamplerIdle
    /\ df = Unbound /\ batch_size = DefaultBatchSize
    /\ env \in Envs /\ service_log = <<>> /\ agent = "unbound"
    /\ pc = "auth_azure" /\ main_df = Unbound /\ azure_client = "unbound"
    /\ sql_conn = "unbound" /\ printed = <<>> /\ entered = <<>> /\ failed = {}

NextMain ==
    \/ MainAuthAzure \/ MainAuthDatabricks \/ MainAuthSql
    \/ MainLoad \/ MainSample
    \/ MainNlp \/ RunNlpSentimentDone \/ RunNlpPhrasesDone \/ RunNlpEntitiesDone
    \/ (pc = "nlp_run" /\ analyze_sentiment)
    \/ (pc = "nlp_run" /\ extract_key_phrases)
    \/ (pc = "nlp_run" /\ recognize_entities)
    \/ MainDisplay
    \/ MainWrite \/ MainWriteUpsertRaised \/ MainWriteVerify
    \/ (pc = "write_upsert" /\ upsert_job_to_sql)

SpecMain == InitMain /\ [][NextMain]_vars

----------------------------------------------------------------------------
\* main() of the chat script.  Streamlit runs it from the top on every
\* interaction; one action below is one such page run.

\* Bound of the model: the page runs of one session.
MaxPageRuns == 6

\* the question typed into st.chat_input, and the sidebar's sample question
TypedQuestions == {"typed question"}
SampleQuestions == {"Show job counts by country"}

\* str(e) of the exceptions agent.invoke can raise: an exception built
\* without a message has the empty text
ExceptionTexts == {"", "quota exceeded"}

\* agent.invoke({"input": question}): what the one call ends with
Invocations(e) ==
    UNION {IF o.result = "ok"
           THEN {[raised |-> FALSE, text |-> "answer"]}
           ELSE {[raised |-> TRUE, text |-> t] : t \in ExceptionTexts} :
             o \in agent_invoke(e)}

\* query_database(agent, question): (response["output"], None), or
\* (None, str(e)) when the call raised
query_database(r) ==
    IF r.raised
    THEN [response |-> NoneV, error |-> Str(r.text)]
    ELSE [response |-> Str(r.text), error |-> NoneV]

\* "if error:" of Python: None and the empty string are false
Truthy(x) == x.t = "str" /\ x.v # ""

Message(role, content) == [role |-> role, content |-> content]
Shown(kind, text) == [kind |-> kind, text |-> text]

\* the assistant's half of a handled question: what is displayed, and the
\* message appended to the history
Reply(r) ==
    LET qd == query_database(r) IN
    IF Truthy(qd.error)
    THEN [shown |-> Shown("error", Str("Error: " \o qd.error.v)),
          message |-> Message("assistant", Str("Error: " \o qd.error.v))]
    ELSE [shown |-> Shown("markdown", qd.response),
          message |-> Message("assistant", qd.response)]

\* "for message in st.session_state.messages: st.markdown(...)"
History(msgs) == [k \in 1..Len(msgs) |-> Shown(msgs[k].role, msgs[k].content)]

\* db = connect_to_sql_database(); agent = create_gemini_sql_agent(db), both
\* under st.cache_resource: a value once returned is reused, a call that
\* raised is made again by the next run
Cached(odb, oag) ==
    cache \cup (IF odb.result = "ok" THEN {"db"} ELSE {})
          \cup (IF ("db" \in cache \/ odb.result = "ok") /\ oag.result = "ok"
                THEN {"agent"} ELSE {})

\* Mutant: the pending question stays in the session state.
PendingAfterHandling_Kept(p) == p

\* "del st.session_state.pending_question"
PendingAfterHandling(p) == <<>>

\* One page run.  event is what the user did: [kind |-> "none"] (the page is
\* loaded or rerun), "typed" or "sample" with the question q, or "clear".
\* The chat input and the sidebar's buttons exist only on a page whose run
\* got past the connecting step, and a run requested by st.rerun() starts
\* before the user can act.
PageRun(event, odb, oag, r) ==
    LET connected == {"db", "agent"} \subseteq Cached(odb, oag)
        pending1 == IF event.kind = "sample" THEN <<event.q>> ELSE pending
        prompt == IF pending1 # <<>> THEN pending1
                  ELSE IF event.kind = "typed" THEN <<event.q>> ELSE <<>>
    IN
    /\ runs < MaxPageRuns
    /\ event.kind # "none" => (~rerun /\ {"db", "agent"} \subseteq cache)
    /\ clicked' = event
    /\ runs' = runs + 1
    /\ cache' = Cached(odb, oag)
    /\ IF ~connected
       THEN \* st.error(...); return
            /\ shown' = <<Shown("error", Str("Database connection failed"))>>
            /\ rerun' = FALSE
            /\ UNCHANGED <<messages, pending, db_connected, asked>>
       ELSE
       /\ db_connected' = TRUE
       /\ IF event.kind = "clear"
          THEN \* messages = []; st.rerun()
               /\ messages' = <<>>
               /\ pending' = pending1
               /\ shown' = <<>>
               /\ rerun' = TRUE
               /\ UNCHANGED asked
          ELSE IF prompt # <<>>
          THEN \* the pending question, else the typed one, is handled
               /\ pending' = PendingAfterHandling(pending1)
               /\ messages' = messages \o <<Message("user", Str(prompt[1])),
                                            Reply(r).message>>
               /\ shown' = History(messages)
                             \o <<Shown("user", Str(prompt[1])), Reply(r).shown>>
               /\ asked' = Append(asked,
                                  [run |-> runs + 1,
                                   source |-> IF pending1 # <<>> THEN "sample" ELSE "typed",
                                   question |-> prompt[1],
                                   raised |-> r.raised, text |-> r.text])
               /\ rerun' = (pending1 # <<>>)
          ELSE /\ shown' = History(messages)
               /\ rerun' = FALSE
               /\ UNCHANGED <<messages, pending, asked>>

\* the page is loaded, or rerun after st.rerun()
RunPage ==
    /\ \E odb \in connect_to_sql_database(env), oag \in create_gemini_sql_agent(env) :
          \E r \in Invocations(env) : PageRun([kind |-> "none"], odb, oag, r)
    /\ UNCHANGED <<enrich_vars, upsert_vars, sampler_vars, config_vars, main_vars>>

\* a question is typed into the chat input
RunTypedQuestion ==
    /\ \E odb \in connect_to_sql_database(env), oag \in create_gemini_sql_agent(env) :
          \E q \in TypedQuestions, r \in Invocations(env) :
             PageRun([kind |-> "typed", q |-> q], odb, oag, r)
    /\ UNCHANGED <<enrich_vars, upsert_vars, sampler_vars, config_vars, main_vars>>

\* a sample question of the sidebar is clicked
RunSampleClick ==
    /\ \E odb \in connect_to_sql_database(env), oag \in create_gemini_sql_agent(env) :
          \E q \in SampleQuestions, r \in Invocations(env) :
             PageRun([kind |-> "sample", q |-> q], odb, oag, r)
    /\ UNCHANGED <<enrich_vars, upsert_vars, sampler_vars, config_vars, main_vars>>

\* "Clear Chat History" is clicked
RunClearClick ==
    /\ \E odb \in connect_to_sql_database(env), oag \in create_gemini_sql_agent(env) :
          \E r \in Invocations(env) : PageRun([kind |-> "clear"], odb, oag, r)
    /\ UNCHANGED <<enrich_vars, upsert_vars, sampler_vars, config_vars, main_vars>>

InitChat ==
    /\ ChatIdle
    /\ EnrichIdle /\ UpsertIdle /\ SamplerIdle /\ MainIdle
    /\ df = Unbound /\ batch_size = DefaultBatchSize
    /\ env \in Envs /\ service_log = <<>> /\ agent = "unbound"

NextChat == RunPage \/ RunTypedQuestion \/ RunSampleClick \/ RunClearClick

SpecChat == InitChat /\ [][NextChat]_vars

----------------------------------------------------------------------------
\* Helpers of the properties of the enrichment functions.
Returned(name) == fn = name /\ fpc = "returned"

\* ceil(n / b)
CeilDiv(n, b) == (n + b - 1) \div b

\* the chunk of input row k (rows counted from 1) and its place in that chunk
ChunkOf(k) == chunk_log[((k - 1) \div batch_size) + 1]
PlaceOf(k) == ((k - 1) % batch_size) + 1

RECURSIVE Concat(_, _)
Concat(seqs, k) == IF k > Len(seqs) THEN <<>> ELSE seqs[k] \o Concat(seqs, k + 1)

RECURSIVE SumOver(_, _)
SumOver(seq, k) == IF k > Len(seq) THEN 0 ELSE seq[k] + SumOver(seq, k + 1)

\* the records of a result collection that carry this job id
RecordsOfJob(d, job_id) == SelectSeq(d.rows, LAMBDA r : r.job_id.v = job_id.v)

\* the result collection of the extraction function that has returned
Extracted == IF fn = "extract_key_phrases" THEN df_key_phrases ELSE df_entities
Extracting == fn \in {"extract_key_phrases", "recognize_entities"}

\* the number of phrase / entity items one response document carries
ItemsOf(doc) == IF doc.is_error THEN 0 ELSE Len(doc.key_phrases) + Len(doc.entities)

\* the label the pipeline stores for each sentiment the service names
LabelOf == [positive |-> "Positive", neutral |-> "Neutral",
            negative |-> "Negative", mixed |-> "Mixed"]

\* what row k's document must have produced, read from the response itself
ExpectedOfDoc(job_id, doc) ==
    IF fn = "extract_key_phrases"
    THEN [p \in 1..Len(doc.key_phrases) |->
            [job_id |-> job_id, phrase |-> doc.key_phrases[p],
             source_field |-> "Job Description"]]
    ELSE [e \in 1..Len(doc.entities) |->
            [job_id |-> job_id, entity_name |-> doc.entities[e].text,
             entity_type |-> doc.entities[e].category,
             confidence |-> doc.entities[e].confidence_score]]

----------------------------------------------------------------------------
\* C1: analyze_sentiment on n texts yields exactly n (score, label) pairs, the
\* k-th on the k-th input row; a pair is (null, null) exactly when its chunk
\* was blank, its chunk's request failed or its own document was flagged, so
\* a failing chunk nulls its own items and shifts no later index.
C1_SentimentOnePairPerRow ==
    fn = "analyze_sentiment" =>
        /\ fpc # "raised"
        /\ Len(sentiment_scores) = Min(i, Len(df.rows))
        /\ Len(sentiment_labels) = Len(sentiment_scores)
        /\ fpc = "returned" =>
            /\ Len(df_with_sentiment.rows) = Len(df.rows)
            /\ \A k \in 1..Len(df.rows) :
                 LET out == df_with_sentiment.rows[k]
                     c == ChunkOf(k)
                     nulled == \/ c.outcome \in {"raised", "skipped"}
                               \/ c.response[PlaceOf(k)].is_error
                 IN /\ out["Job Id"] = df.rows[k]["Job Id"]
                    /\ out[TextColumn] = df.rows[k][TextColumn]
                    /\ IsNull(out["sentiment_score"]) <=> nulled
                    /\ IsNull(out["sentiment_label"]) <=> nulled

\* C1 witness: a run of two or more chunks has returned in which a chunk's
\* request failed and a later chunk was answered with a result.
C1_Witness ==
    /\ Returned("analyze_sentiment")
    /\ \E a, b \in 1..Len(chunk_log) :
         /\ a < b
         /\ chunk_log[a].outcome = "raised"
         /\ chunk_log[b].outcome = "ok"
         /\ \E j \in 1..Len(chunk_log[b].response) : ~chunk_log[b].response[j].is_error

\* C2: every key-phrase / entity record carries a job id of an input row; a
\* chunk whose request failed contributes no record, and every item of the
\* answered chunks is kept.
C2_RecordsReferenceInputJobs ==
    Extracting =>
        /\ \A r \in 1..Len(results) :
             \E k \in 1..Len(df.rows) : results[r].job_id = JobIdsOf(df)[k]
        /\ fpc = "returned" =>
            /\ Extracted.rows = results
            /\ \A k \in 1..Len(df.rows) :
                 ChunkOf(k).outcome = "raised" =>
                     RecordsOfJob(Extracted, JobIdsOf(df)[k]) = <<>>
            /\ Len(Extracted.rows) =
                 SumOver([c \in 1..Len(chunk_log) |->
                            SumOver([j \in 1..Len(chunk_log[c].response) |->
                                       ItemsOf(chunk_log[c].response[j])], 1)], 1)

\* C2 witness: an extraction has returned records although one of its chunks
\* failed at batch level.
C2_Witness ==
    /\ Extracting /\ fpc = "returned"
    /\ Extracted.rows # <<>>
    /\ \E c \in 1..Len(chunk_log) : chunk_log[c].outcome = "raised"

\* C3 as stated: every function has issued ceil(n / batch_size) requests when
\* it returns.
C3_OneCallPerChunk ==
    (fn # "none" /\ fpc = "returned") => Len(calls) = CeilDiv(Len(df.rows), batch_size)

\* C3 amended: the chunks are the contiguous slices of the input in order
\* (each of batch_size texts except possibly the last); the requests are, in
\* chunk order, exactly one per chunk for key phrases and entities and one
\* per chunk holding a non-empty text for sentiment (a blank chunk is
\* skipped without a request); a failed chunk is not requested again.
C3_OneCallPerNonSkippedChunk ==
    (fn # "none" /\ fpc = "returned") =>
        LET texts == TextsOf(df, TextColumn)
            n == Len(texts)
            sent == SelectSeq(chunk_log, LAMBDA c : c.outcome # "skipped")
        IN /\ Len(chunk_log) = CeilDiv(n, batch_size)
           /\ Concat([c \in 1..Len(chunk_log) |-> chunk_log[c].batch], 1) = texts
           /\ \A c \in 1..Len(chunk_log) :
                /\ chunk_log[c].start = (c - 1) * batch_size
                /\ c < Len(chunk_log) => Len(chunk_log[c].batch) = batch_size
                /\ Len(chunk_log[c].batch) \in 1..batch_size
                /\ chunk_log[c].outcome = "skipped" <=>
                     (fn = "analyze_sentiment" /\
                      \A j \in 1..Len(chunk_log[c].batch) : chunk_log[c].batch[j] = "")
           /\ calls = [c \in 1..Len(sent) |-> [op |-> fn, docs |-> sent[c].batch]]

\* C3 witness: a function has returned after a failed chunk that was followed
\* by a further request.
C3_Witness ==
    /\ fn # "none" /\ fpc = "returned"
    /\ Len(calls) >= 2
    /\ \E c \in 1..(Len(chunk_log) - 1) :
         chunk_log[c].outcome = "raised" /\ chunk_log[c + 1].outcome # "skipped"

\* C4: in an answered chunk a flagged document affects its own row only: the
\* row gets (null, null) / no record, every other row of the chunk gets the
\* result of its own document.
C4_DocumentErrorIsLocal ==
    (fn # "none" /\ fpc = "returned") =>
        \A k \in 1..Len(df.rows) :
            LET c == ChunkOf(k)
                doc == c.response[PlaceOf(k)]
                out == df_with_sentiment.rows[k]
            IN c.outcome = "ok" =>
                IF fn = "analyze_sentiment"
                THEN IF doc.is_error
                     THEN out["sentiment_score"] \in {NoneV, NaN}
                          /\ out["sentiment_label"] = NoneV
                     ELSE /\ out["sentiment_score"].v =
                               Max3(doc.positive, doc.neutral, doc.negative)
                          /\ out["sentiment_label"] = Str(LabelOf[doc.sentiment])
                ELSE RecordsOfJob(Extracted, JobIdsOf(df)[k]) =
                        IF doc.is_error THEN <<>>
                        ELSE ExpectedOfDoc(JobIdsOf(df)[k], doc)

\* C4 witness: a returned run holds an answered chunk with one flagged
\* document before an unflagged one that produced a result.
C4_Witness ==
    /\ fn # "none" /\ fpc = "returned"
    /\ \E c \in 1..Len(chunk_log) :
         /\ chunk_log[c].outcome = "ok"
         /\ \E a, b \in 1..Len(chunk_log[c].response) :
              /\ a < b
              /\ chunk_log[c].response[a].is_error
              /\ ~chunk_log[c].response[b].is_error
              /\ (fn # "analyze_sentiment" => ItemsOf(chunk_log[c].response[b]) > 0)

----------------------------------------------------------------------------
\* Helpers of the properties of upsert_job_to_sql.
UpsertEnded == upc \in {"returned", "raised"}

\* the statements the connection was asked to execute / the commits
Executes == SelectSeq(sql_log, LAMBDA e : e.kind = "execute")
Commits == SelectSeq(sql_log, LAMBDA e : e.kind = "commit")

\* whether a collection holds no record of the job of the row
NoRecordOfJob(d) == \A k \in 1..Len(d.rows) : d.rows[k].job_id.v # row["Job Id"].v

\* the positions of the two JSON parameters in the statement
KeyPhrasesPosition == CHOOSE k \in 1..Len(ProcParams) : ProcParams[k] = "key_phrases_json"
EntitiesPosition == CHOOSE k \in 1..Len(ProcParams) : ProcParams[k] = "entities_json"

\* the text of a JSON array of the objects made of the records, selected by
\* keep, of a collection
RECURSIVE ArrayText(_, _, _, _, _)
ArrayText(rows, k, keep(_), object(_), first) ==
    IF k > Len(rows) THEN "]"
    ELSE IF keep(rows[k])
         THEN (IF first THEN "" ELSE ", ") \o object(rows[k])
                  \o ArrayText(rows, k + 1, keep, object, FALSE)
         ELSE ArrayText(rows, k + 1, keep, object, first)

OfThisJob(r) == r.job_id.v = row["Job Id"].v

PhraseText(r) ==
    "{\"phrase\": \"" \o r.phrase \o "\", \"source\": \"" \o r.source_field \o "\"}"

ConfidenceText == [c \in {50, 95, 100} |->
                     CASE c = 50 -> "0.5" [] c = 95 -> "0.95" [] c = 100 -> "1.0"]

EntityText(r) ==
    "{\"entity\": \"" \o r.entity_name \o "\", \"type\": \"" \o r.entity_type
        \o "\", \"confidence\": " \o ConfidenceText[r.confidence] \o "}"

\* C5 as stated: once a call of upsert_job_to_sql has ended for a job without
\* key-phrase records (resp. entity records), the stored procedure was
\* called with the text "[]" at the key-phrases (resp. entities) parameter.
C5_EmptyArrayForJobWithoutRecords ==
    UpsertEnded =>
        /\ NoRecordOfJob(df_key_phrases) =>
             /\ Executes # <<>>
             /\ Executes[1].params[KeyPhrasesPosition] = Str("[]")
        /\ NoRecordOfJob(df_entities) =>
             /\ Executes # <<>>
             /\ Executes[1].params[EntitiesPosition] = Str("[]")

\* C6: the two JSON texts built for a job hold one object per record of the
\* collection with this job's id, in collection order, and nothing else.
C6_JsonHoldsTheJobsRecords ==
    upc \in {"execute", "commit", "returned"} =>
        /\ phrases_json = "[" \o ArrayText(df_key_phrases.rows, 1, OfThisJob, PhraseText, TRUE)
        /\ entities_json = "[" \o ArrayText(df_entities.rows, 1, OfThisJob, EntityText, TRUE)
        /\ \A k \in 1..Len(Executes) :
             /\ Executes[k].params[KeyPhrasesPosition] = Str(phrases_json)
             /\ Executes[k].params[EntitiesPosition] = Str(entities_json)

\* C6 witness: the call has returned for a job with two different key-phrase
\* records of its own, and an entity collection that holds a record of
\* another job before a record of this job.
C6_Witness ==
    /\ upc = "returned"
    /\ \E a, b \in 1..Len(df_key_phrases.rows) :
         /\ a < b
         /\ OfThisJob(df_key_phrases.rows[a]) /\ OfThisJob(df_key_phrases.rows[b])
         /\ df_key_phrases.rows[a].phrase # df_key_phrases.rows[b].phrase
    /\ \E a, b \in 1..Len(df_entities.rows) :
         /\ a < b
         /\ ~OfThisJob(df_entities.rows[a]) /\ OfThisJob(df_entities.rows[b])

\* the source column each parameter of sp_UpsertJob stands for
ColumnOfParam ==
    [job_id |-> "Job Id", job_title |-> "Job Title", company_name |-> "Company",
     company_size |-> "Company Size", company_profile |-> "Company Profile",
     city |-> "location", country |-> "Country", latitude |-> "latitude",
     longitude |-> "longitude", role_name |-> "Role", portal_name |-> "Job Portal",
     posting_date |-> "Job Posting Date", salary_range |-> "Salary Range",
     experience |-> "Experience", qualifications |-> "Qualifications",
     job_description |-> "Job Description", benefits |-> "Benefits",
     work_type |-> "Work Type", preference |-> "Preference",
     contact_person |-> "Contact Person", contact_number |-> "Contact",
     responsibilities |-> "Responsibilities", skills_string |-> "skills",
     sentiment_score |-> "sentiment_score"]

\* an executed statement carries, at each named parameter, the value of the
\* column the parameter stands for, and the two JSON texts
CarriesTheJob(e) ==
    /\ e.statement = "sp_UpsertJob"
    /\ Len(e.params) = Len(e.names)
    /\ \A k \in 1..Len(e.names) :
         CASE e.names[k] = "key_phrases_json" -> e.params[k] = Str(phrases_json)
           [] e.names[k] = "entities_json" -> e.params[k] = Str(entities_json)
           [] OTHER ->
                LET cell == row[ColumnOfParam[e.names[k]]] IN
                IF IsNull(cell) THEN e.params[k] = NoneV
                ELSE e.params[k].v = cell.v

\* C7: a call that returns has executed the stored procedure once, with the
\* job's fields and the two JSON texts in the order of the statement's
\* parameters, and then committed once; a commit is only ever issued right
\* after a successful execute, so a failing execute leaves nothing committed.
C7_ExecuteOnceThenCommitOnce ==
    /\ Len(Executes) <= 1 /\ Len(Commits) <= 1
    /\ \A k \in 1..Len(sql_log) :
         /\ sql_log[k].kind = "execute" => CarriesTheJob(sql_log[k])
         /\ sql_log[k].kind = "commit" =>
              k > 1 /\ sql_log[k - 1].kind = "execute" /\ sql_log[k - 1].ok
    /\ upc = "returned" =>
         /\ Len(sql_log) = 2
         /\ sql_log[1].kind = "execute" /\ sql_log[1].ok
         /\ sql_log[2].kind = "commit" /\ sql_log[2].ok
    /\ (\E k \in 1..Len(sql_log) : sql_log[k].kind = "execute" /\ ~sql_log[k].ok)
         => Commits = <<>> /\ upc # "returned"

\* C7 witness: a call has returned after its execute and its commit.
C7_Witness ==
    /\ upc = "returned"
    /\ Len(Executes) = 1 /\ Len(Commits) = 1
    /\ IsNull(row["sentiment_score"])

\* C7 second witness state: a call has ended on a failing execute.
C7_FailedExecuteReached ==
    /\ upc = "raised"
    /\ Executes # <<>> /\ ~Executes[1].ok

----------------------------------------------------------------------------
\* C8: random_df_split(df, k) with k <= len(df) returns exactly k rows, each
\* a row of df and none twice, and the same rows on every call with the same
\* input; with k > len(df) it raises and returns nothing.
C8_SampleIsDeterministicSubset ==
    \A c \in 1..Len(sample_log) :
        LET call == sample_log[c] IN
        /\ call.raised <=> call.numrows > Len(df.rows)
        /\ call.raised => call.value = Unbound
        /\ ~call.raised =>
             /\ Len(call.value.rows) = call.numrows
             /\ \A a \in 1..call.numrows :
                  \E k \in 1..Len(df.rows) : call.value.rows[a] = df.rows[k]
             /\ \A a, b \in 1..call.numrows :
                  a # b => call.value.rows[a]["Job Id"] # call.value.rows[b]["Job Id"]
        /\ \A d \in 1..Len(sample_log) :
             sample_log[d].numrows = call.numrows => sample_log[d].value = call.value

\* C8 witness: two calls for the same proper, non-empty part of a table have
\* returned, and a third size was refused.
C8_Witness ==
    /\ Len(sample_log) = 2
    /\ sample_log[1].numrows = sample_log[2].numrows
    /\ sample_log[1].numrows \in 2..(Len(df.rows) - 1)
    /\ ~sample_log[1].raised /\ ~sample_log[2].raised

\* C8 second witness state: a request for more rows than the table holds
\* was refused.
C8_RefusalReached ==
    \E c \in 1..Len(sample_log) :
        sample_log[c].raised /\ sample_log[c].numrows = Len(df.rows) + 1

----------------------------------------------------------------------------
\* the settings of each external service
VarsOf(service) ==
    CASE service = "nlp" -> NlpVars
      [] service = "sql" -> SqlVars
      [] service = "warehouse" -> WarehouseVars
      [] service = "llm" -> LlmVars

\* C9 as stated: whenever a function connecting to a service runs with one of
\* the service's settings absent, it fails, and the service's client has not
\* been asked to reach the service.
C9_MissingSettingFailsBeforeNetwork ==
    \A k \in 1..Len(service_log) :
        ~(VarsOf(service_log[k].service) \subseteq env) =>
            /\ service_log[k].result # "ok"
            /\ ~service_log[k].network

----------------------------------------------------------------------------
\* Helpers of the property of main().
AuthStages == {"auth_azure", "auth_databricks", "auth_sql"}

\* main() is over before its last statement: exit(1) or return
EndedEarly == pc \in {"exited", "returned"}

Ended == pc \in {"exited", "returned", "done"}

LastEntered == entered[Len(entered)]

IsLogged(stage) == \E k \in 1..Len(printed) : printed[k].stage = stage

InStageOrder ==
    /\ Len(entered) <= Len(Stages)
    /\ \A k \in 1..Len(entered) : entered[k] = Stages[k]

\* C10 as stated: main() ends early only after a failure in one of the three
\* authentication steps, and a failure in a later stage (loading, sampling,
\* enrichment, write) is logged and does not end the run before the next
\* stage has started.
C10_EndsEarlyOnlyAfterAuthFailure ==
    /\ EndedEarly => LastEntered \in AuthStages \cap failed
    /\ \A k \in 1..Len(entered) :
         (Ended /\ entered[k] \in failed \ (AuthStages \cup {"write"})) =>
             IsLogged(entered[k]) /\ Len(entered) > k

\* C10, amended: main() ends early only after a failure in one of the three
\* authentication steps (exit) or in the enrichment stage (return, nothing is
\* displayed or written); a failure in loading or in sampling is logged and
\* the next stage starts; a failure in the write stage is logged and main()
\* ends at its last statement; the stages start in their order.
C10_EndsEarlyOnlyAfterAuthOrEnrichmentFailure ==
    /\ InStageOrder
    /\ \A stage \in failed : IsLogged(stage)
    /\ pc = "exited" <=> failed \cap AuthStages # {}
    /\ pc = "exited" => LastEntered \in AuthStages \cap failed
    /\ pc = "returned" <=> "nlp" \in failed
    /\ pc = "returned" => LastEntered = "nlp"
    /\ \A k \in 1..Len(entered) :
         (Ended /\ entered[k] \in failed \cap {"load", "sample"}) =>
             Len(entered) > k
    /\ "write" \in failed => pc = "done"

\* main() returned from the enrichment stage after the loading and the
\* sampling had failed and had been passed.
C10_Witness ==
    /\ pc = "returned"
    /\ {"load", "sample", "nlp"} \subseteq failed
    /\ entered = <<"auth_azure", "auth_databricks", "auth_sql", "load",
                   "sample", "nlp">>

\* main() returned from the enrichment stage although the loading and the
\* sampling succeeded: an extraction produced no record at all.
C10_ReturnAfterEmptyExtraction ==
    /\ pc = "returned"
    /\ failed = {"nlp"}

\* main() reached its last statement after a failed write.
C10_WriteFailureReached ==
    /\ pc = "done"
    /\ "write" \in failed

----------------------------------------------------------------------------
\* Helpers of the property of the enrichment stage inside main().

\* the enrichment function that ran last met a failed request or a flagged
\* document
ServiceFailed ==
    \E c \in 1..Len(chunk_log) :
        \/ chunk_log[c].outcome = "raised"
        \/ \E j \in 1..Len(chunk_log[c].response) : chunk_log[c].response[j].is_error

\* C11 as stated: in a full run (the sample is bound when the enrichment
\* stage starts) no failed request and no flagged document of the NLP service
\* aborts the run: main() does not return from the enrichment stage, and once
\* the stage is over the three collections are bound.
C11_ServiceFailuresNeverAbort ==
    (df_sample # Unbound /\ ServiceFailed) =>
        /\ pc # "returned"
        /\ "nlp" \notin failed
        /\ pc \in {"display", "write", "write_upsert", "done"} =>
             /\ df_with_sentiment # Unbound
             /\ df_key_phrases # Unbound
             /\ df_entities # Unbound

\* main() has reached the upsert although requests of the enrichment stage
\* failed.
C11_UpsertReachedAfterFailure ==
    /\ pc = "write_upsert"
    /\ ServiceFailed

----------------------------------------------------------------------------
\* Helpers of the two-row scenario.
EmptyRows == {k \in 1..Len(df.rows) : TextsOf(df, TextColumn)[k] = ""}

\* a sample of two rows, one with an empty description, one with a text
TwoRowScenario == Len(df.rows) = 2 /\ Cardinality(EmptyRows) = 1

EmptyRow == CHOOSE k \in EmptyRows : TRUE
OtherRow == CHOOSE k \in 1..Len(df.rows) : k \notin EmptyRows

\* an empty text was part of a request
EmptyTextSent ==
    \E c \in 1..Len(calls) : \E j \in 1..Len(calls[c].docs) : calls[c].docs[j] = ""

\* row k's document was answered with a result
Answered(k) ==
    /\ ChunkOf(k).outcome = "ok"
    /\ ~ChunkOf(k).response[PlaceOf(k)].is_error

C12_ExtractionSentEmptyText ==
    /\ TwoRowScenario /\ Extracting /\ fpc = "returned"
    /\ EmptyTextSent
    /\ Extracted.rows # <<>>

\* analyze_sentiment has skipped the empty row as a chunk of its own.
C12_BlankChunkSkipped ==
    /\ TwoRowScenario /\ Returned("analyze_sentiment")
    /\ ~EmptyTextSent
    /\ ~IsNull(df_with_sentiment.rows[OtherRow]["sentiment_label"])

----------------------------------------------------------------------------
\* C13: every connection opened by load_data_from_databricks is closed when
\* that call ends, and outside the upsert of the write section (between the
\* connect and the close of main()) no relational connection opened by
\* main() is open: not after the connection test, not when main() has ended.
C13_ConnectionsClosedWithinInvocation ==
    /\ \A k \in 1..Len(service_log) :
         service_log[k].fn = "load_data_from_databricks" => ~service_log[k].open
    /\ pc # "write_upsert" => sql_conn # "open"

\* main() has reached its last statement with the connection of the write
\* section closed.
C13_ClosedAfterWrite ==
    /\ pc = "done"
    /\ "write" \notin failed
    /\ sql_conn = "closed"

----------------------------------------------------------------------------
\* Helpers of the properties of the chat script.
LastAsked == asked[Len(asked)]

\* the last page run handled a question
HandledInLastRun == asked # <<>> /\ LastAsked.run = runs

LastMessage == messages[Len(messages)]
LastShown == shown[Len(shown)]

\* C14: a handled question is one call of the agent; when the call of the
\* question handled by the last page run raised, the run displayed the
\* exception's text as an error and the last message of the history is the
\* assistant's message holding that error text, after the user's question.
C14_RaisedInvocationRecordedAsError ==
    (HandledInLastRun /\ LastAsked.raised) =>
        /\ Len(messages) >= 2
        /\ messages[Len(messages) - 1] = Message("user", Str(LastAsked.question))
        /\ LastShown.kind = "error"
        /\ LastShown.text = Str("Error: " \o LastAsked.text)
        /\ LastMessage = Message("assistant", Str("Error: " \o LastAsked.text))

\* a raised call with a text was displayed and recorded as an error
C14_ErrorTextRecorded ==
    /\ HandledInLastRun /\ LastAsked.raised
    /\ LastAsked.text # ""
    /\ LastShown.kind = "error"
    /\ LastMessage = Message("assistant", Str("Error: " \o LastAsked.text))

----------------------------------------------------------------------------
\* Helpers of the property of the statement's parameters.

\* the native type of each kind of non-missing value
NativeOf == [str |-> "str", int |-> "int", float |-> "float"]
              @@ ("np.int64" :> "int") @@ ("np.float64" :> "float")

\* the field of the record is missing: its key is absent, or it holds None
\* or NaN
IsMissing(r, c) == c \notin DOMAIN r \/ r[c].t \in {"none", "nan"}

\* C15: in every executed statement, the parameter of a field of the record
\* that is missing (absent key, None, NaN), the sentiment score included, is
\* None and never a number; the parameter of any other field has the
\* field's value, as a native str, int or float.
C15_MissingFieldsPassedAsNull ==
    \A n \in 1..Len(Executes) :
        LET e == Executes[n] IN
        /\ Len(e.params) = Len(e.names)
        /\ \A k \in 1..Len(e.names) :
             e.names[k] \notin {"key_phrases_json", "entities_json"} =>
                 LET c == ColumnOfParam[e.names[k]] IN
                 IF IsMissing(row, c)
                 THEN e.params[k] = NoneV
                 ELSE /\ e.params[k].v = row[c].v
                      /\ e.params[k].t = NativeOf[row[c].t]

\* a statement was executed for a record with an absent field, without a
\* sentiment score, and with a numpy zero in a field: the first two were
\* passed as None, the zero as a native number.
C15_Witness ==
    /\ Executes # <<>>
    /\ \E c \in GetColumns : c \notin DOMAIN row
    /\ "sentiment_score" \in DOMAIN row /\ row["sentiment_score"].t = "nan"
    /\ Executes[1].params[Len(ProcParams)] = NoneV
    /\ \E k \in 1..Len(ProcParams) :
         /\ ProcParams[k] \notin {"key_phrases_json", "entities_json"}
         /\ ColumnOfParam[ProcParams[k]] \notin DOMAIN row
         /\ Executes[1].params[k] = NoneV

\* a numpy zero was passed as a native zero
C15_ZeroPassedAsZero ==
    /\ Executes # <<>>
    /\ \E k \in 1..Len(ProcParams) :
         /\ ProcParams[k] \notin {"key_phrases_json", "entities_json"}
         /\ ColumnOfParam[ProcParams[k]] \in DOMAIN row
         /\ row[ColumnOfParam[ProcParams[k]]] = Val("np.float64", 0)
         /\ Executes[1].params[k] = Val("float", 0)

----------------------------------------------------------------------------
\* Helpers of the property of the chat history.

\* user, assistant, user, assistant, ...
Alternates(msgs) ==
    /\ Len(msgs) % 2 = 0
    /\ \A k \in 1..Len(msgs) :
         msgs[k].role = IF k % 2 = 1 THEN "user" ELSE "assistant"

\* what one page run does to the history
HistoryStep ==
    /\ Alternates(messages')
    /\ pending' = <<>>
    /\ Len(asked') <= Len(asked) + 1
    /\ CASE clicked'.kind \in {"typed", "sample"} ->
              /\ Len(messages') = Len(messages) + 2
              /\ SubSeq(messages', 1, Len(messages)) = messages
              /\ messages'[Len(messages) + 1] = Message("user", Str(clicked'.q))
              /\ messages'[Len(messages) + 2].role = "assistant"
              /\ Len(asked') = Len(asked) + 1
              /\ asked'[Len(asked')].question = clicked'.q
              /\ asked'[Len(asked')].source = clicked'.kind
              /\ clicked'.kind = "sample" => rerun'
         [] clicked'.kind = "clear" ->
              /\ messages' = <<>>
              /\ asked' = asked
         [] clicked'.kind = "none" ->
              /\ messages' = messages
              /\ asked' = asked

C16_QuestionAfterClear ==
    /\ Len(asked) = 2
    /\ Len(messages) = 2
    /\ clicked.kind = "typed"

====
